---- MODULE Spec2Model ----
(***************************************************************************)
(* Lifecycle orchestration of the Tetracubed server (tetracubed-api).      *)
(*                                                                         *)
(* The HTTP handlers tetracubed_start / tetracubed_stop (src/main.py) run  *)
(* `stack.up` / `stack.destroy` over the resource graph declared by        *)
(* create_pulumi_program.  The three dynamic providers                     *)
(* (DataSyncExecutionProvider, EcsServiceManagerProvider,                  *)
(* DynamicDnsProvider) are modelled operation by operation; every poll of  *)
(* a waiter is one step, so that the external services can change between  *)
(* polls.  The deployment engine itself is not part of the repository: it  *)
(* is modelled by its contract (a resource is created after everything it  *)
(* depends on, deleted after everything that depends on it, a resource     *)
(* already in the stack state with unchanged inputs is left alone, and     *)
(* after a failed step no new step is started).                            *)
(***************************************************************************)
EXTENDS Naturals, Integers, Sequences, FiniteSets, TLC

(***************************************************************************)
(* Bounds of the model.                                                    *)
(***************************************************************************)
\* number of start/stop requests served in one behaviour
MaxRuns == 2
\* number of resource operations the engine has in flight at once
MaxParallel == 1
\* number of requests in one behaviour of the event-loop model
MaxRequests == 2
\* number of external calls one stack.up / stack.destroy makes there
MaxCalls == 2

(***************************************************************************)
(* Program constants.                                                      *)
(***************************************************************************)
\* create_waiter_config: "maxAttempts": 60
TaskExecutionComplete_maxAttempts == 60
\* WaiterConfig={"Delay": 10, "MaxAttempts": 60}
services_stable_MaxAttempts == 60

(***************************************************************************)
(* The resource graph of create_pulumi_program.                            *)
(***************************************************************************)
\* the infrastructure components (VpcComponent + SecurityGroupsComponent,
\* EfsComponent, EcsComponent, DataSyncComponent), at the granularity the
\* custom resources depend on
Infra ==
    {"network", "efs", "ecs_cluster", "ecs_service",
     "datasync_locations", "s3_to_efs_task", "efs_to_s3_task"}

\* the four dynamic-provider resources
DataSyncExecutions == {"s3-to-efs-auto", "efs-to-s3-auto"}

Custom == DataSyncExecutions \cup {"ecs-service-manager", "ddns-update"}

Resources == Infra \cup Custom

\* depends_on options and input/output references
depends_on(r) ==
    CASE r = "network"             -> {}
      [] r = "efs"                 -> {"network"}
      [] r = "ecs_cluster"         -> {}
      [] r = "ecs_service"         -> {"ecs_cluster", "efs", "network"}
      [] r = "datasync_locations"  -> {"efs", "network"}
      [] r = "s3_to_efs_task"      -> {"datasync_locations"}
      [] r = "efs_to_s3_task"      -> {"datasync_locations"}
      [] r = "s3-to-efs-auto"      -> {"s3_to_efs_task"}
      [] r = "ecs-service-manager" -> {"s3-to-efs-auto", "ecs_cluster", "ecs_service"}
      [] r = "ddns-update"         -> {"ecs-service-manager"}
      [] r = "efs-to-s3-auto"      -> {"efs_to_s3_task"}

\* mutant: the service manager is declared without depends_on=[s3_to_efs_execution]
DependsOn_noRestore(r) ==
    IF r = "ecs-service-manager" THEN depends_on(r) \ {"s3-to-efs-auto"}
                                 ELSE depends_on(r)

\* mutant: the DNS update is declared without depends_on=[ecs_service_manager]
\* and with a literal address
DependsOn_noStart(r) ==
    IF r = "ddns-update" THEN {} ELSE depends_on(r)

\* what the engine orders the steps by
DependsOn(r) == depends_on(r)

\* the transfer job a DataSyncExecution resource runs (its task_arn)
Jobs == {"restore", "backup"}

task_arn(r) == IF r = "s3-to-efs-auto" THEN "restore" ELSE "backup"

task_name(r) ==
    IF r = "s3-to-efs-auto" THEN "S3 to EFS (load world data)"
                            ELSE "EFS to S3 (save world data)"

\* the keyword arguments written at the two DataSyncExecution call sites
CallArgs(r) ==
    IF r = "s3-to-efs-auto"
    THEN [task_arn |-> "restore", task_name |-> task_name(r),
          run_on_create |-> TRUE, run_on_delete |-> FALSE]
    ELSE [task_arn |-> "backup", task_name |-> task_name(r),
          run_on_create |-> FALSE, run_on_delete |-> TRUE]

\* hostname=os.getenv("HOSTNAME", "tetranet.ddns.net")
Hostname == "tetranet.ddns.net"

(***************************************************************************)
(* DataSyncExecution.__init__                                              *)
(*                                                                         *)
(* The constructor declares name, task_arn, task_name and opts, and        *)
(* registers full_args = {task_arn, task_name}.  The call sites pass       *)
(* run_on_create and run_on_delete as well.  Binding such a call raises    *)
(* TypeError in CPython ("TypeError" below: the program stops at the first *)
(* DataSyncExecution call).  The model also carries the two ways the       *)
(* mismatch is resolved by changing one side only: "defaults" keeps the    *)
(* constructor (the flags never reach the provider, whose props.get        *)
(* defaults then apply) and "forwarded" keeps the call sites (the flags    *)
(* reach the provider as written in create_pulumi_program).                *)
(***************************************************************************)
Bindings == {"TypeError", "defaults", "forwarded"}

\* parameters of __init__ that full_args registers as resource inputs
full_args(args) == [k \in {"task_arn", "task_name"} |-> args[k]]

\* the inputs a DataSyncExecution resource is registered with
RegisteredProps(b, r) ==
    IF b = "forwarded" THEN CallArgs(r) ELSE full_args(CallArgs(r))

\* dict.get(key, default)
Get(props, key, default) ==
    IF key \in DOMAIN props THEN props[key] ELSE default

\* the resources the program registers before it returns or raises
Registered(b) == IF b = "TypeError" THEN Infra ELSE Resources

(***************************************************************************)
(* External services.                                                      *)
(***************************************************************************)
\* DescribeTaskExecution Status values the waiter's acceptors tell apart
TerminalFailure == {"ERROR", "CANCELED"}

\* public addresses a running task can have
Addresses == {"203.0.113.7", "198.51.100.9"}

\* the ways _get_public_ip raises
ResolveErrors ==
    {"No running tasks found", "Could not describe task",
     "No network attachments found on task",
     "Could not find network interface ID in task details",
     "No public IP associated with ENI"}

\* first word of the No-IP response text, or a request that raised before
\* any response came back
DnsResponses ==
    {"good", "nochg", "nohost", "badauth", "badagent", "!donator", "abuse",
     "RequestException"}

(***************************************************************************)
(* State.                                                                  *)
(***************************************************************************)
VARIABLES
    binding,        \* how the DataSyncExecution calls bind (see above)
    stack,          \* resources recorded in the stack state
    outs,           \* outputs recorded in the stack state
    desiredCount,   \* ECS service: desired replica count
    stable,         \* ECS service: runningCount = desiredCount, one deployment
    exec,           \* DataSync: status of the latest execution of each job
    dnsRecord,      \* No-IP: address the hostname points at (it points at
                    \* some address before the first run)
    pc,             \* position of the HTTP handler
    kind,           \* "up" (tetracubed_start) or "destroy" (tetracubed_stop)
    ops,            \* provider operations in flight
    errors,         \* exceptions raised by steps of the current run
    result,         \* what the handler returned
    hist,           \* external calls made by the current run
    notifications,  \* messages passed to notify_async by the current run
    nruns           \* requests served so far

vars ==
    <<binding, stack, outs, desiredCount, stable, exec, dnsRecord, pc, kind,
      ops, errors, result, hist, notifications, nruns>>

external == <<desiredCount, stable, exec, dnsRecord>>

NoOp == [phase |-> "none", attempts |-> 0]

NoOuts ==
    [public_ip |-> "none", ip_address |-> "none", hostname |-> "none",
     result |-> "none", status |-> [r \in DataSyncExecutions |-> "none"]]

NoHist ==
    [begun |-> {}, started |-> [j \in Jobs |-> 0], succeeded |-> {},
     desired1 |-> 0, desired0 |-> 0, startReturned |-> "none",
     stopReturned |-> FALSE, dnsCalls |-> 0, dnsArg |-> "none",
     dnsResponse |-> "none", dnsHttpOk |-> TRUE, resolve |-> <<>>,
     inTarget |-> FALSE, afterSuccess |-> {},
     destroyed |-> {}, unsaved |-> {}]

NoResult == [status |-> "none", public_ip |-> "none"]

Init ==
    /\ binding \in Bindings
    /\ stack = {}
    /\ outs = NoOuts
    /\ desiredCount = 0
    /\ stable = TRUE
    /\ exec = [j \in Jobs |-> "NONE"]
    /\ dnsRecord = "203.0.113.7"
    /\ pc = "idle"
    /\ kind = "none"
    /\ ops = [r \in Custom |-> NoOp]
    /\ errors = {}
    /\ result = NoResult
    /\ hist = NoHist
    /\ notifications = <<>>
    /\ nruns = 0

InFlight == {r \in Custom : ops[r].phase # "none"}

failed == errors # {}

\* mutant: the update / destroy is run with continue-on-error
CanBegin_continueOnError(r) ==
    /\ pc = "engine"
    /\ r \notin hist.begun
    /\ Cardinality(InFlight) < MaxParallel

\* the engine starts a new step only while no step has failed and a worker
\* is free
CanBegin(r) ==
    /\ pc = "engine"
    /\ ~failed
    /\ r \notin hist.begun
    /\ Cardinality(InFlight) < MaxParallel

\* up: r is declared, not yet in the stack, and everything it depends on is
CanCreate(r) ==
    /\ kind = "up"
    /\ r \in Registered(binding) \ stack
    /\ DependsOn(r) \subseteq stack
    /\ CanBegin(r)

\* destroy: r is in the stack and nothing left in the stack depends on it
CanDelete(r) ==
    /\ kind = "destroy"
    /\ r \in stack
    /\ \A d \in stack : r \notin DependsOn(d)
    /\ CanBegin(r)

Begun(r) == [hist EXCEPT !.begun = @ \cup {r}]

(***************************************************************************)
(* botocore Waiter.wait, as configured by create_waiter_config and by      *)
(* WaiterConfig: the outcome of the poll that brings the number of polls   *)
(* to `attempts`.  `state` is the acceptor state the response matched.     *)
(***************************************************************************)
\* mutant: the attempt limit is tested with > instead of >=
Waiter_wait_extraPoll(state, attempts, maxAttempts) ==
    CASE state = "success" -> "success"
      [] state = "failure" -> "failure"
      [] state = "retry" /\ attempts > maxAttempts -> "timeout"
      [] OTHER -> "retry"

\* mutant: the wait has no attempt limit
Waiter_wait_noLimit(state, attempts, maxAttempts) ==
    CASE state = "success" -> "success"
      [] state = "failure" -> "failure"
      [] OTHER -> "retry"

\* mutant: running out of attempts is reported as a terminal failure
Waiter_wait_timeoutAsFailure(state, attempts, maxAttempts) ==
    CASE state = "success" -> "success"
      [] state = "failure" -> "failure"
      [] state = "retry" /\ attempts >= maxAttempts -> "failure"
      [] OTHER -> "retry"

Waiter_wait(state, attempts, maxAttempts) ==
    CASE state = "success" -> "success"
      [] state = "failure" -> "failure"
      [] state = "retry" /\ attempts >= maxAttempts -> "timeout"
      [] OTHER -> "retry"

\* mutant: the ERROR acceptor is given state "success"
TaskExecutionComplete_errorAccepted(status) ==
    CASE status \in {"SUCCESS", "ERROR"} -> "success"
      [] status = "CANCELED" -> "failure"
      [] OTHER -> "retry"

\* mutant: the CANCELED acceptor is missing
TaskExecutionComplete_noCanceled(status) ==
    CASE status = "SUCCESS" -> "success"
      [] status = "ERROR" -> "failure"
      [] OTHER -> "retry"

\* acceptors of TaskExecutionComplete
TaskExecutionComplete(status) ==
    CASE status = "SUCCESS" -> "success"
      [] status \in TerminalFailure -> "failure"
      [] OTHER -> "retry"

\* mutant: the stability wait returns at its first poll whatever it observes
services_stable_always(isStable) == "success"

\* acceptors of services_stable that this model distinguishes
services_stable(isStable) == IF isStable THEN "success" ELSE "retry"

\* an exception: the step that raised it, the text the provider wraps it in
\* and what it wraps
Err(r, text, cause) ==
    [step |-> r, text |-> text,
     task_name |-> IF r \in DataSyncExecutions THEN task_name(r) ELSE "",
     cause |-> cause]

(***************************************************************************)
(* HTTP handlers: tetracubed_start and tetracubed_stop.                    *)
(***************************************************************************)
\* POST /tetracubed/start: notify, then select the stack
tetracubed_start ==
    /\ pc \in {"idle", "done"}
    /\ nruns < MaxRuns
    /\ nruns' = nruns + 1
    /\ pc' = "select"
    /\ kind' = "up"
    /\ errors' = {}
    /\ result' = NoResult
    /\ hist' = NoHist
    /\ notifications' = <<"Provisioning Tetracubed Server...">>
    /\ ops' = [r \in Custom |-> NoOp]
    /\ UNCHANGED <<binding, stack, outs, external>>

\* POST /tetracubed/stop: notify, then select the stack
tetracubed_stop ==
    /\ pc \in {"idle", "done"}
    /\ nruns < MaxRuns
    /\ nruns' = nruns + 1
    /\ pc' = "select"
    /\ kind' = "destroy"
    /\ errors' = {}
    /\ result' = NoResult
    /\ hist' = NoHist
    /\ notifications' = <<"Deprovisioning Tetracubed Server...">>
    /\ ops' = [r \in Custom |-> NoOp]
    /\ UNCHANGED <<binding, stack, outs, external>>

\* create_or_select_stack and add_environments return: stack.up or
\* stack.destroy is entered
select_stack ==
    /\ pc = "select"
    /\ pc' = "engine"
    /\ notifications' =
         IF kind = "destroy"
         THEN Append(notifications, "Destroying Infrastructure")
         ELSE notifications
    /\ UNCHANGED <<binding, stack, outs, external, kind, ops, errors, result,
                   hist, nruns>>

\* create_or_select_stack or add_environments raises: the handler's except
\* branch notifies and answers 500 without entering the engine
select_stack_raises ==
    /\ pc = "select"
    /\ pc' = "done"
    /\ errors' = {Err("stack", "create_or_select_stack", "exception")}
    /\ result' = [NoResult EXCEPT !.status = "error"]
    /\ notifications' =
         Append(notifications,
                IF kind = "up" THEN "Failed To Provision Exception"
                               ELSE "Failed To Deprovision Exception")
    /\ UNCHANGED <<binding, stack, outs, external, kind, ops, hist, nruns>>

\* tetracubed_start: list_environments returns no environment.  The handler
\* notifies the failure and raises HTTPException inside its try block; the
\* except Exception branch catches it, notifies again and answers 500
esc_not_configured ==
    /\ pc = "select"
    /\ kind = "up"
    /\ pc' = "done"
    /\ errors' = {Err("stack", "list_environments", "ESC not configured")}
    /\ result' = [NoResult EXCEPT !.status = "error"]
    /\ notifications' =
         notifications \o <<"Provisioning failed: ESC not configured",
                            "Failed To Provision Exception">>
    /\ UNCHANGED <<binding, stack, outs, external, kind, ops, hist, nruns>>

(***************************************************************************)
(* Infrastructure resources (pulumi_aws): one step each.                   *)
(***************************************************************************)
\* aws.ecs.Service is declared with desired_count=0
create_infra(r) ==
    /\ r \in Infra
    /\ CanCreate(r)
    /\ stack' = stack \cup {r}
    /\ hist' = Begun(r)
    /\ IF r = "ecs_service"
       THEN desiredCount' = 0 /\ stable' = TRUE
       ELSE UNCHANGED <<desiredCount, stable>>
    /\ UNCHANGED <<binding, outs, exec, dnsRecord, pc, kind, ops, errors,
                   result, notifications, nruns>>

delete_infra(r) ==
    /\ r \in Infra
    /\ CanDelete(r)
    /\ stack' = stack \ {r}
    /\ hist' = [Begun(r) EXCEPT
                  !.destroyed = @ \cup {r},
                  !.unsaved = IF "backup" \in hist.succeeded THEN @
                              ELSE @ \cup {r}]
    /\ UNCHANGED <<binding, outs, external, pc, kind, ops, errors, result,
                   notifications, nruns>>

\* binding "TypeError": the DataSyncExecution call at the end of the
\* infrastructure declarations raises; the update fails however many of the
\* registered infrastructure resources the engine has created by then
program_raises ==
    /\ pc = "engine"
    /\ kind = "up"
    /\ binding = "TypeError"
    /\ ~failed
    /\ errors' = {Err("program", "DataSyncExecution.__init__", "TypeError")}
    /\ UNCHANGED <<binding, stack, outs, external, pc, kind, ops, result,
                   hist, notifications, nruns>>

(***************************************************************************)
(* DataSyncExecutionProvider.                                              *)
(***************************************************************************)
\* mutant: create runs the task whatever run_on_create says
run_on_create_ignored(r) == TRUE

run_on_create(r) == Get(RegisteredProps(binding, r), "run_on_create", TRUE)

run_on_delete(r) == Get(RegisteredProps(binding, r), "run_on_delete", FALSE)

\* mutant: an execution that already succeeded is waited for again instead
\* of starting a new one
execute_task_start_reuses(r) ==
    /\ exec' = [exec EXCEPT ![task_arn(r)] =
                   IF @ = "SUCCESS" THEN @ ELSE "IN_PROGRESS"]
    /\ ops' = [ops EXCEPT ![r] = [phase |-> "wait", attempts |-> 0]]
    /\ hist' = [Begun(r) EXCEPT
                  !.started[task_arn(r)] =
                      IF exec[task_arn(r)] = "SUCCESS" THEN @ ELSE @ + 1,
                  !.afterSuccess = IF exec[task_arn(r)] = "SUCCESS"
                                   THEN @ \cup {task_arn(r)} ELSE @]
    /\ UNCHANGED <<stack, outs>>

\* _execute_task up to waiter.wait: start_task_execution starts a new
\* execution of the job
execute_task_start(r) ==
    /\ exec' = [exec EXCEPT ![task_arn(r)] = "IN_PROGRESS"]
    /\ ops' = [ops EXCEPT ![r] = [phase |-> "wait", attempts |-> 0]]
    /\ hist' = [Begun(r) EXCEPT
                  !.started[task_arn(r)] = @ + 1,
                  !.afterSuccess = IF exec[task_arn(r)] = "SUCCESS"
                                   THEN @ \cup {task_arn(r)} ELSE @]
    /\ UNCHANGED <<stack, outs>>

\* mutant: the except branch of _execute_task cancels the execution
execute_task_cancels(status, out) ==
    IF out \in {"failure", "timeout"} THEN "CANCELED" ELSE status

\* the status of the execution when the wait is over: the except branch of
\* _execute_task logs and raises, it makes no call
execute_task_leaves(status, out) == status

\* create: skipped when run_on_create is false, else _execute_task
DataSyncExecutionProvider_create(r) ==
    /\ r \in DataSyncExecutions
    /\ CanCreate(r)
    /\ IF ~run_on_create(r)
       THEN /\ stack' = stack \cup {r}
            /\ outs' = [outs EXCEPT !.status[r] = "SKIPPED"]
            /\ hist' = Begun(r)
            /\ UNCHANGED <<exec, ops>>
       ELSE execute_task_start(r)
    /\ UNCHANGED <<binding, desiredCount, stable, dnsRecord, pc, kind, errors,
                   result, notifications, nruns>>

\* delete: skipped when run_on_delete is false, else _execute_task
DataSyncExecutionProvider_delete(r) ==
    /\ r \in DataSyncExecutions
    /\ CanDelete(r)
    /\ IF ~run_on_delete(r)
       THEN /\ stack' = stack \ {r}
            /\ outs' = [outs EXCEPT !.status[r] = "none"]
            /\ hist' = Begun(r)
            /\ UNCHANGED <<exec, ops>>
       ELSE execute_task_start(r)
    /\ UNCHANGED <<binding, desiredCount, stable, dnsRecord, pc, kind, errors,
                   result, notifications, nruns>>

\* one DescribeTaskExecution poll of waiter.wait inside _execute_task, and
\* what create / delete do once it returns or raises
execute_task_wait(r) ==
    /\ r \in DataSyncExecutions
    /\ pc = "engine"
    /\ ops[r].phase = "wait"
    /\ \E status \in (IF exec[task_arn(r)] = "IN_PROGRESS"
                      THEN {"IN_PROGRESS", "SUCCESS"} \cup TerminalFailure
                      ELSE {exec[task_arn(r)]}) :
         LET n == ops[r].attempts + 1
             out == Waiter_wait(TaskExecutionComplete(status), n,
                                TaskExecutionComplete_maxAttempts)
             text == IF kind = "up" THEN "DataSync CREATE failed for"
                                    ELSE "DataSync DELETE failed for"
         IN  /\ exec' = [exec EXCEPT ![task_arn(r)] =
                            execute_task_leaves(status, out)]
             /\ CASE out = "success" ->
                       /\ ops' = [ops EXCEPT ![r] = NoOp]
                       /\ stack' = IF kind = "up" THEN stack \cup {r}
                                                  ELSE stack \ {r}
                       /\ outs' = [outs EXCEPT !.status[r] =
                                     IF kind = "up" THEN "SUCCESS" ELSE "none"]
                       /\ hist' = [hist EXCEPT !.succeeded = @ \cup {task_arn(r)}]
                       /\ UNCHANGED errors
                  [] out = "retry" ->
                       /\ ops' = [ops EXCEPT ![r].attempts = n]
                       /\ UNCHANGED <<stack, outs, hist, errors>>
                  [] OTHER ->
                       /\ ops' = [ops EXCEPT ![r] = NoOp]
                       /\ errors' = errors \cup
                            {Err(r, text,
                                 IF out = "failure" THEN status
                                 ELSE "Max attempts exceeded")}
                       /\ UNCHANGED <<stack, outs, hist>>
    /\ UNCHANGED <<binding, desiredCount, stable, dnsRecord, pc, kind, result,
                   notifications, nruns>>

(***************************************************************************)
(* EcsServiceManagerProvider.                                              *)
(***************************************************************************)
\* mutant: update_service is called with forceNewDeployment
update_service_redeploys(n) ==
    /\ desiredCount' = n
    /\ stable' = FALSE

\* update_service(desiredCount=n): a changed count opens a new deployment
update_service(n) ==
    /\ desiredCount' = n
    /\ stable' = IF desiredCount = n THEN stable ELSE FALSE

\* create up to waiter.wait: desired count 1
EcsServiceManagerProvider_create ==
    LET r == "ecs-service-manager"
    IN  /\ CanCreate(r)
        /\ update_service(1)
        /\ ops' = [ops EXCEPT ![r] = [phase |-> "wait", attempts |-> 0]]
        /\ hist' = [Begun(r) EXCEPT !.desired1 = @ + 1,
                                    !.inTarget = (desiredCount = 1 /\ stable)]
        /\ UNCHANGED <<binding, stack, outs, exec, dnsRecord, pc, kind, errors,
                       result, notifications, nruns>>

\* mutant: delete returns right after update_service, without the wait
EcsServiceManagerProvider_delete_noWait ==
    LET r == "ecs-service-manager"
    IN  /\ CanDelete(r)
        /\ update_service(0)
        /\ stack' = stack \ {r}
        /\ outs' = [outs EXCEPT !.public_ip = "none"]
        /\ hist' = [Begun(r) EXCEPT !.desired0 = @ + 1, !.stopReturned = TRUE]
        /\ UNCHANGED <<binding, exec, dnsRecord, pc, kind, ops, errors,
                       result, notifications, nruns>>

\* delete up to waiter.wait: desired count 0
EcsServiceManagerProvider_delete ==
    LET r == "ecs-service-manager"
    IN  /\ CanDelete(r)
        /\ update_service(0)
        /\ ops' = [ops EXCEPT ![r] = [phase |-> "wait", attempts |-> 0]]
        /\ hist' = [Begun(r) EXCEPT !.desired0 = @ + 1,
                                    !.inTarget = (desiredCount = 0 /\ stable)]
        /\ UNCHANGED <<binding, stack, outs, exec, dnsRecord, pc, kind, errors,
                       result, notifications, nruns>>

\* one DescribeServices poll of the services_stable waiter; create goes on
\* to _get_public_ip, delete returns
services_stable_wait ==
    LET r == "ecs-service-manager"
    IN  /\ pc = "engine"
        /\ ops[r].phase = "wait"
        /\ \E s \in (IF stable THEN {TRUE} ELSE BOOLEAN) :
             LET n == ops[r].attempts + 1
                 out == Waiter_wait(services_stable(s), n,
                                    services_stable_MaxAttempts)
             IN  /\ stable' = s
                 /\ CASE out = "success" /\ kind = "up" ->
                           /\ ops' = [ops EXCEPT ![r] =
                                        [phase |-> "resolve", attempts |-> n]]
                           /\ UNCHANGED <<stack, outs, hist, errors>>
                      [] out = "success" /\ kind # "up" ->
                           /\ ops' = [ops EXCEPT ![r] = NoOp]
                           /\ stack' = stack \ {r}
                           /\ outs' = [outs EXCEPT !.public_ip = "none"]
                           /\ hist' = [hist EXCEPT !.stopReturned = TRUE]
                           /\ UNCHANGED errors
                      [] out = "retry" ->
                           /\ ops' = [ops EXCEPT ![r].attempts = n]
                           /\ UNCHANGED <<stack, outs, hist, errors>>
                      [] OTHER ->
                           /\ ops' = [ops EXCEPT ![r] = NoOp]
                           /\ errors' = errors \cup
                                {Err(r, IF kind = "up"
                                        THEN "ECS service start failed"
                                        ELSE "ECS service stop failed",
                                     "Max attempts exceeded")}
                           /\ UNCHANGED <<stack, outs, hist>>
        /\ UNCHANGED <<binding, desiredCount, exec, dnsRecord, pc, kind,
                       result, notifications, nruns>>

\* the external calls _get_public_ip has made when it returns res or raises
\* res: list_tasks, describe_tasks, and the load of the network interface
get_public_ip_calls(res) ==
    CASE res = "No running tasks found" -> <<"list_tasks">>
      [] res \in {"Could not describe task",
                  "No network attachments found on task",
                  "Could not find network interface ID in task details"} ->
           <<"list_tasks", "describe_tasks">>
      [] OTHER -> <<"list_tasks", "describe_tasks", "NetworkInterface">>

\* _get_public_ip and the return of create
get_public_ip ==
    LET r == "ecs-service-manager"
    IN  /\ pc = "engine"
        /\ ops[r].phase = "resolve"
        /\ ops' = [ops EXCEPT ![r] = NoOp]
        /\ \E res \in Addresses \cup ResolveErrors :
             IF res \in Addresses
             THEN /\ stack' = stack \cup {r}
                  /\ outs' = [outs EXCEPT !.public_ip = res]
                  /\ hist' = [hist EXCEPT !.startReturned = res,
                                          !.resolve = get_public_ip_calls(res)]
                  /\ UNCHANGED errors
             ELSE /\ errors' = errors \cup
                       {Err(r, "ECS service start failed", res)}
                  /\ hist' = [hist EXCEPT !.resolve = get_public_ip_calls(res)]
                  /\ UNCHANGED <<stack, outs>>
        /\ UNCHANGED <<binding, external, pc, kind, result, notifications,
                       nruns>>

(***************************************************************************)
(* DynamicDnsProvider.                                                     *)
(***************************************************************************)
\* mutant: only "good" is accepted
update_dns_goodOnly(response) == response = "good"

\* _update_dns: the response is accepted iff it starts with good or nochg
update_dns(response) == response \in {"good", "nochg"}

\* what No-IP can answer to an update of the record to ip
NoIpAnswers(ip) ==
    {resp \in DnsResponses :
        /\ resp = "good" => dnsRecord # ip
        /\ resp = "nochg" => dnsRecord = ip}

\* response.raise_for_status(): whether the answer comes with a status below
\* 400.  An accepted update comes with one; a refusal may come with either;
\* a request that got no answer has none.
HttpOk(response) ==
    CASE response \in {"good", "nochg"} -> {TRUE}
      [] response = "RequestException" -> {FALSE}
      [] OTHER -> BOOLEAN

\* mutant: the DNS update is given the address the record last pointed at
ddns_ip_address_stale == dnsRecord

\* ip_address=ecs_service_manager.public_ip
ddns_ip_address == outs.public_ip

\* mutant: a failed request leaves the requested address in the outputs
update_dns_request_recordsFailure(r, ip_address) ==
    \E response \in NoIpAnswers(ip_address) :
      \E http_ok \in HttpOk(response) :
        /\ hist' = [Begun(r) EXCEPT !.dnsCalls = @ + 1,
                                    !.dnsArg = ip_address,
                                    !.dnsResponse = response,
                                    !.dnsHttpOk = http_ok]
        /\ IF http_ok /\ update_dns(response)
           THEN /\ stack' = stack \cup {r}
                /\ outs' = [outs EXCEPT !.ip_address = ip_address,
                                        !.hostname = Hostname,
                                        !.result = response]
                /\ dnsRecord' = ip_address
                /\ UNCHANGED errors
           ELSE /\ errors' = errors \cup
                     {IF http_ok
                      THEN Err(r, "DDNS update failed", response)
                      ELSE Err(r, "DDNS HTTP request failed",
                               IF response = "RequestException"
                               THEN response ELSE "HTTPError")}
                /\ outs' = [outs EXCEPT !.ip_address = ip_address]
                /\ UNCHANGED <<stack, dnsRecord>>

\* _update_dns as called by create and update: one GET request, no retry
update_dns_request(r, ip_address) ==
    \E response \in NoIpAnswers(ip_address) :
      \E http_ok \in HttpOk(response) :
        /\ hist' = [Begun(r) EXCEPT !.dnsCalls = @ + 1,
                                    !.dnsArg = ip_address,
                                    !.dnsResponse = response,
                                    !.dnsHttpOk = http_ok]
        /\ IF http_ok /\ update_dns(response)
           THEN /\ stack' = stack \cup {r}
                /\ outs' = [outs EXCEPT !.ip_address = ip_address,
                                        !.hostname = Hostname,
                                        !.result = response]
                /\ dnsRecord' = ip_address
                /\ UNCHANGED errors
           ELSE /\ errors' = errors \cup
                     {IF http_ok
                      THEN Err(r, "DDNS update failed", response)
                      ELSE Err(r, "DDNS HTTP request failed",
                               IF response = "RequestException"
                               THEN response ELSE "HTTPError")}
                /\ UNCHANGED <<stack, outs, dnsRecord>>

\* create: one update request with the service manager's public_ip
DynamicDnsProvider_create ==
    LET r == "ddns-update"
        ip_address == ddns_ip_address
    IN  /\ CanCreate(r)
        /\ update_dns_request(r, ip_address)
        /\ UNCHANGED <<binding, desiredCount, stable, exec, pc, kind, ops,
                       result, notifications, nruns>>

\* mutant: update does not compare the addresses
ip_changed_always(old_ip_address, ip_address) == TRUE

\* update: if old_props.get("ip_address") != ip_address
ip_changed(old_ip_address, ip_address) == old_ip_address # ip_address

\* update: the engine calls it in a provision run for a resource that is in
\* the stack and whose inputs (hostname, ip_address, username, password)
\* differ from the recorded ones; a request is made only if the address
\* differs
DynamicDnsProvider_update ==
    LET r == "ddns-update"
        ip_address == ddns_ip_address
    IN  /\ kind = "up"
        /\ r \in Registered(binding) \cap stack
        /\ DependsOn(r) \subseteq stack
        /\ CanBegin(r)
        /\ IF ip_changed(outs.ip_address, ip_address)
           THEN update_dns_request(r, ip_address)
           ELSE /\ hist' = Begun(r)
                /\ outs' = [outs EXCEPT !.hostname = Hostname,
                                        !.ip_address = ip_address,
                                        !.result = "nochg (no update needed)"]
                /\ UNCHANGED <<stack, dnsRecord, errors>>
        /\ UNCHANGED <<binding, desiredCount, stable, exec, pc, kind, ops,
                       result, notifications, nruns>>

\* mutant: delete asks No-IP to drop the record
DynamicDnsProvider_delete_clears ==
    LET r == "ddns-update"
    IN  /\ CanDelete(r)
        /\ stack' = stack \ {r}
        /\ outs' = [outs EXCEPT !.ip_address = "none", !.hostname = "none",
                                !.result = "none"]
        /\ hist' = [Begun(r) EXCEPT !.dnsCalls = @ + 1]
        /\ dnsRecord' = "none"
        /\ UNCHANGED <<binding, desiredCount, stable, exec, pc, kind, ops,
                       errors, result, notifications, nruns>>

\* delete: no request, the record stays
DynamicDnsProvider_delete ==
    LET r == "ddns-update"
    IN  /\ CanDelete(r)
        /\ stack' = stack \ {r}
        /\ outs' = [outs EXCEPT !.ip_address = "none", !.hostname = "none",
                                !.result = "none"]
        /\ hist' = Begun(r)
        /\ UNCHANGED <<binding, external, pc, kind, ops, errors, result,
                       notifications, nruns>>

(***************************************************************************)
(* Return of stack.up / stack.destroy to the handler.                      *)
(***************************************************************************)
\* stack.up returns: every declared resource is in the stack
stack_up_returns ==
    /\ pc = "engine"
    /\ kind = "up"
    /\ ~failed
    /\ binding # "TypeError"
    /\ InFlight = {}
    /\ Registered(binding) \subseteq stack
    /\ pc' = "outputs"
    /\ UNCHANGED <<binding, stack, outs, external, kind, ops, errors, result,
                   hist, notifications, nruns>>

\* tetracubed_start reads the outputs public_ip and hostname, notifies
\* (the text holds both) and answers with the message and public_ip: the
\* returned dict has no hostname key
read_outputs ==
    /\ pc = "outputs"
    /\ pc' = "done"
    /\ result' = [status |-> "ok", public_ip |-> outs.public_ip]
    /\ notifications' =
         Append(notifications, "Tetracubed Has Been Successfully Provisioned!")
    /\ UNCHANGED <<binding, stack, outs, external, kind, ops, errors, hist,
                   nruns>>

\* stack.destroy returns: nothing is left in the stack
stack_destroy_returns ==
    /\ pc = "engine"
    /\ kind = "destroy"
    /\ ~failed
    /\ InFlight = {}
    /\ stack = {}
    /\ pc' = "done"
    /\ result' = [NoResult EXCEPT !.status = "ok"]
    /\ notifications' =
         Append(notifications,
                "Tetracubed Has Been Successfully Deprovisioned!")
    /\ UNCHANGED <<binding, stack, outs, external, kind, ops, errors, hist,
                   nruns>>

\* stack.up / stack.destroy raises once the steps in flight have ended; the
\* handler's except branch notifies and answers 500
engine_raises ==
    /\ pc = "engine"
    /\ failed
    /\ InFlight = {}
    /\ pc' = "done"
    /\ result' = [NoResult EXCEPT !.status = "error"]
    /\ notifications' =
         Append(notifications,
                IF kind = "up" THEN "Failed To Provision Exception"
                               ELSE "Failed To Deprovision Exception")
    /\ UNCHANGED <<binding, stack, outs, external, kind, ops, errors, hist,
                   nruns>>

Next ==
    \/ tetracubed_start
    \/ tetracubed_stop
    \/ select_stack
    \/ select_stack_raises
    \/ esc_not_configured
    \/ \E r \in Infra : create_infra(r)
    \/ \E r \in Infra : delete_infra(r)
    \/ program_raises
    \/ \E r \in DataSyncExecutions : DataSyncExecutionProvider_create(r)
    \/ \E r \in DataSyncExecutions : DataSyncExecutionProvider_delete(r)
    \/ \E r \in DataSyncExecutions : execute_task_wait(r)
    \/ EcsServiceManagerProvider_create
    \/ EcsServiceManagerProvider_delete
    \/ services_stable_wait
    \/ get_public_ip
    \/ DynamicDnsProvider_create
    \/ DynamicDnsProvider_update
    \/ DynamicDnsProvider_delete
    \/ stack_up_returns
    \/ read_outputs
    \/ stack_destroy_returns
    \/ engine_raises

Spec == Init /\ [][Next]_vars

\* A run that has begun keeps taking steps: the handler runs stack.up or
\* stack.destroy synchronously, the engine runs every step that is ready and
\* each waiter polls again after its delay.  Nothing is assumed about the
\* arrival of requests or about what the services answer.
SpecLive == Spec /\ WF_vars(Next /\ nruns' = nruns)

(***************************************************************************)
(* The API process started against a stack that earlier runs left behind.  *)
(* The stack state is kept by the Pulumi backend and the service, the      *)
(* transfer executions and the DNS record are external: all of them        *)
(* outlive the process.  Besides the empty stack, the process can find the *)
(* stack fully provisioned, left by a provision run that failed at the     *)
(* address resolution, or left by a deprovision run whose stop step timed  *)
(* out before the service settled at desired count 0.                      *)
(***************************************************************************)
Persisted ==
    {"empty", "provisioned", "start failed", "stop timed out", "renamed"}

\* the hostname of the process that provisioned the stack in the case
\* "renamed": the API process was started again with another HOSTNAME
OldHostname == "old.ddns.net"

\* the resources in the stack in each of these cases
PersistedStack(p) ==
    CASE p = "empty" -> {}
      [] p \in {"provisioned", "renamed"} -> Resources
      [] p = "start failed" -> Resources \ {"ecs-service-manager", "ddns-update"}
      [] p = "stop timed out" -> Resources \ {"ddns-update"}

InitRestart ==
    /\ binding \in Bindings
    /\ \E p \in Persisted :
         LET a == "203.0.113.7"
             b == binding
             ran(r) == Get(RegisteredProps(b, r), "run_on_create", TRUE)
         IN  /\ b = "TypeError" <=> p = "empty"
             /\ stack = PersistedStack(p)
             /\ outs =
                  [public_ip |-> IF "ecs-service-manager" \in PersistedStack(p)
                                 THEN a ELSE "none",
                   ip_address |-> IF p \in {"provisioned", "renamed"}
                                  THEN a ELSE "none",
                   hostname |-> CASE p = "provisioned" -> Hostname
                                  [] p = "renamed" -> OldHostname
                                  [] OTHER -> "none",
                   result |-> IF p \in {"provisioned", "renamed"}
                              THEN "good" ELSE "none",
                   status |-> [r \in DataSyncExecutions |->
                                 CASE p = "empty" -> "none"
                                   [] ran(r) -> "SUCCESS"
                                   [] OTHER -> "SKIPPED"]]
             /\ desiredCount = IF p \in {"provisioned", "start failed",
                                          "renamed"}
                               THEN 1 ELSE 0
             /\ stable = TRUE
             /\ exec = [j \in Jobs |->
                          IF p # "empty" /\
                             \E r \in DataSyncExecutions :
                                task_arn(r) = j /\ ran(r)
                          THEN "SUCCESS" ELSE "NONE"]
             /\ dnsRecord = IF p = "renamed" THEN "none" ELSE a
    /\ pc = "idle"
    /\ kind = "none"
    /\ ops = [r \in Custom |-> NoOp]
    /\ errors = {}
    /\ result = NoResult
    /\ hist = NoHist
    /\ notifications = <<>>
    /\ nruns = 0

SpecRestart == InitRestart /\ [][Next]_vars

(***************************************************************************)
(* The handlers as coroutines of one event loop (SpecLoop).                *)
(*                                                                         *)
(* tetracubed_start and tetracubed_stop are `async def`: uvicorn runs them *)
(* as coroutines on the event-loop thread, and a coroutine keeps the       *)
(* thread until it suspends or returns.  Here pc and kind are indexed by   *)
(* request, hist.running is the request whose coroutine has the thread (0: *)
(* none) and hist.calls counts the external calls of each request's        *)
(* stack.up / stack.destroy; the resources and the external services are   *)
(* left out (they are what Spec is about).                                 *)
(***************************************************************************)
Requests == 1 .. MaxRequests

\* send_async hands the message to a thread pool and does not await the
\* future: `await notify_async(...)` never suspends the handler
notify_async_suspends == FALSE

\* what becomes of one notification: the background send_sync delivers it,
\* send_sync returns False in its thread (no webhook URL, or no attempt
\* received 204), or run_in_executor raises when the send is queued
Deliveries == {"sent", "not delivered", "queue error"}

\* mutant: an error of run_in_executor is not caught
send_async_raises(delivery) ==
    IF delivery = "queue error" THEN "raises" ELSE "True"

\* send_async: True once the send is queued, whatever send_sync will return
\* in its thread; `except Exception` turns a queueing error into False
send_async(delivery) ==
    IF delivery = "queue error" THEN "False" ELSE "True"

\* hist.failures after a notify_async of request i
notified(i, delivery) ==
    [hist EXCEPT !.failures[i] =
        IF delivery = "sent" THEN @ ELSE @ \cup {delivery}]

\* mutant: stack.up / stack.destroy are awaited through run_in_executor
stack_call_in_executor_awaited == TRUE

\* stack.up(on_output=print) and stack.destroy(on_output=print) are called
\* directly: they run on the event-loop thread, not in an executor
stack_call_in_executor == FALSE

InitLoop ==
    /\ binding = "forwarded"
    /\ stack = {}
    /\ outs = NoOuts
    /\ desiredCount = 0
    /\ stable = TRUE
    /\ exec = [j \in Jobs |-> "NONE"]
    /\ dnsRecord = "203.0.113.7"
    /\ pc = [i \in Requests |-> "none"]
    /\ kind = [i \in Requests |-> "none"]
    /\ ops = [r \in Custom |-> NoOp]
    /\ errors = {}
    /\ result = NoResult
    /\ hist = [running |-> 0, calls |-> [i \in Requests |-> 0],
               outcome |-> [i \in Requests |-> "none"],
               failures |-> [i \in Requests |-> {}]]
    /\ notifications = <<>>
    /\ nruns = 0

\* what the event-loop model leaves alone
resources ==
    <<binding, stack, outs, external, ops, errors, result, notifications>>

\* the thread is free, or request i has it
CanRun(i) == hist.running \in {0, i}

\* a request is received: POST /tetracubed/start or /tetracubed/stop
request_received(i, k) ==
    /\ pc[i] = "none"
    /\ \A j \in Requests : j < i => pc[j] # "none"
    /\ pc' = [pc EXCEPT ![i] = "queued"]
    /\ kind' = [kind EXCEPT ![i] = k]
    /\ nruns' = nruns + 1
    /\ UNCHANGED <<resources, hist>>

\* the handler's coroutine starts: await notify_async("Provisioning ...")
\* (outside the try block: an exception of it would end the request)
handler_begins(i) ==
    /\ pc[i] = "queued"
    /\ hist.running = 0
    /\ \E d \in Deliveries :
         IF send_async(d) = "raises"
         THEN /\ pc' = [pc EXCEPT ![i] = "raised"]
              /\ hist' = notified(i, d)
         ELSE /\ pc' = [pc EXCEPT ![i] = "select"]
              /\ hist' = [notified(i, d) EXCEPT
                            !.running = IF notify_async_suspends THEN 0 ELSE i]
    /\ UNCHANGED <<resources, kind, nruns>>

\* create_or_select_stack, add_environments (and for stop the second
\* notify_async), then stack.up / stack.destroy is entered
stack_call_begins(i) ==
    /\ pc[i] = "select"
    /\ CanRun(i)
    /\ \E d \in (IF kind[i] = "destroy" THEN Deliveries ELSE {"sent"}) :
         IF send_async(d) = "raises"
         THEN /\ pc' = [pc EXCEPT ![i] = "except"]
              /\ hist' = [notified(i, d) EXCEPT !.running = i]
         ELSE /\ pc' = [pc EXCEPT ![i] = "engine"]
              /\ hist' = [notified(i, d) EXCEPT
                            !.running = IF stack_call_in_executor THEN 0 ELSE i]
    /\ UNCHANGED <<resources, kind, nruns>>

\* create_or_select_stack or add_environments raises
select_raises(i) ==
    /\ pc[i] = "select"
    /\ CanRun(i)
    /\ pc' = [pc EXCEPT ![i] = "except"]
    /\ hist' = [hist EXCEPT !.running = i, !.outcome[i] = "error"]
    /\ UNCHANGED <<resources, kind, nruns>>

\* stack.up / stack.destroy makes an external call (a provider operation)
stack_call_step(i) ==
    /\ pc[i] = "engine"
    /\ stack_call_in_executor \/ hist.running = i
    /\ hist.calls[i] < MaxCalls
    /\ hist' = [hist EXCEPT !.calls[i] = @ + 1]
    /\ UNCHANGED <<resources, pc, kind, nruns>>

\* stack.up / stack.destroy returns or raises; the handler goes on to its
\* last notify_async
stack_call_ends(i, next) ==
    /\ pc[i] = "engine"
    /\ next \in {"finish", "except"}
    /\ CanRun(i)
    /\ pc' = [pc EXCEPT ![i] = next]
    /\ hist' = [hist EXCEPT !.running = i,
                            !.outcome[i] = IF next = "finish" THEN "ok"
                                                              ELSE "error"]
    /\ UNCHANGED <<resources, kind, nruns>>

\* the last notify_async, then return or raise HTTPException(500); the
\* success notification is inside the try block, so an exception of it
\* would be handled by the except branch
handler_ends(i) ==
    /\ pc[i] \in {"finish", "except"}
    /\ CanRun(i)
    /\ \E d \in Deliveries :
         IF send_async(d) = "raises" /\ pc[i] = "finish"
         THEN /\ pc' = [pc EXCEPT ![i] = "except"]
              /\ hist' = [notified(i, d) EXCEPT !.running = i]
         ELSE /\ pc' = [pc EXCEPT ![i] = IF pc[i] = "finish" THEN "returned"
                                                             ELSE "raised"]
              /\ hist' = [notified(i, d) EXCEPT !.running = 0]
    /\ UNCHANGED <<resources, kind, nruns>>

NextLoop ==
    \/ \E i \in Requests, k \in {"up", "destroy"} : request_received(i, k)
    \/ \E i \in Requests : handler_begins(i)
    \/ \E i \in Requests : stack_call_begins(i)
    \/ \E i \in Requests : select_raises(i)
    \/ \E i \in Requests : stack_call_step(i)
    \/ \E i \in Requests, next \in {"finish", "except"} :
          stack_call_ends(i, next)
    \/ \E i \in Requests : handler_ends(i)

SpecLoop == InitLoop /\ [][NextLoop]_vars

(***************************************************************************)
(* DiscordNotifier.send_sync for one message (SpecNotify).                 *)
(*                                                                         *)
(* outs.webhook_url is the configured URL ("none": not configured), pc is  *)
(* the position in send_sync, hist.attempt the loop variable,              *)
(* hist.received the outcomes of the POSTs made so far and result.status   *)
(* the value returned.                                                     *)
(***************************************************************************)
\* DiscordNotifier.__init__: max_retries: int = 3
max_retries == 3

\* what one requests.post can end in: a status code (429 with a body that
\* has retry_after, or with a body that .get cannot be called on), a
\* timeout, another request error, or any other exception
PostOutcomes ==
    {"204", "429", "429 bad body", "500", "Timeout", "RequestException",
     "Exception"}

\* mutant: every status code that is not 429 counts as delivered
post_result_anyStatus(outcome) ==
    CASE outcome \in {"204", "500"} -> "True"
      [] outcome \in {"429 bad body", "Exception"} -> "False"
      [] OTHER -> "next"

\* the body of the loop for one attempt: return True on 204, return False
\* from `except Exception`, go on to the next attempt otherwise
post_result(outcome) ==
    CASE outcome = "204" -> "True"
      [] outcome \in {"429 bad body", "Exception"} -> "False"
      [] OTHER -> "next"

InitNotify ==
    /\ binding = "forwarded"
    /\ stack = {}
    /\ outs \in [webhook_url : {"none", "https://discord.com/api/webhooks/1"}]
    /\ desiredCount = 0
    /\ stable = TRUE
    /\ exec = [j \in Jobs |-> "NONE"]
    /\ dnsRecord = "203.0.113.7"
    /\ pc = "send_sync"
    /\ kind = "none"
    /\ ops = [r \in Custom |-> NoOp]
    /\ errors = {}
    /\ result = [status |-> "none"]
    /\ hist = [attempt |-> 0, received |-> <<>>]
    /\ notifications = <<"Provisioning Tetracubed Server...">>
    /\ nruns = 0

\* what send_sync leaves alone
notifier_unchanged ==
    <<binding, stack, outs, external, kind, ops, errors, notifications, nruns>>

\* send_sync up to the loop: return False if no webhook URL is configured
send_sync_begins ==
    /\ pc = "send_sync"
    /\ IF outs.webhook_url = "none"
       THEN /\ pc' = "returned"
            /\ result' = [status |-> "False"]
            /\ UNCHANGED hist
       ELSE /\ pc' = "loop"
            /\ hist' = [hist EXCEPT !.attempt = 1]
            /\ UNCHANGED result
    /\ UNCHANGED notifier_unchanged

\* one pass of `for attempt in range(1, self.max_retries + 1)`: one POST;
\* when the last pass goes on, the loop is over and send_sync returns False
send_sync_attempt ==
    /\ pc = "loop"
    /\ \E outcome \in PostOutcomes :
         LET r == post_result(outcome)
             received == Append(hist.received, outcome)
         IN  IF r = "next" /\ hist.attempt < max_retries
             THEN /\ hist' = [attempt |-> hist.attempt + 1,
                              received |-> received]
                  /\ UNCHANGED <<pc, result>>
             ELSE /\ hist' = [hist EXCEPT !.received = received]
                  /\ pc' = "returned"
                  /\ result' = [status |-> IF r = "next" THEN "False" ELSE r]
    /\ UNCHANGED notifier_unchanged

NextNotify ==
    \/ send_sync_begins
    \/ send_sync_attempt

SpecNotify == InitNotify /\ [][NextNotify]_vars

(***************************************************************************)
(* Properties.                                                             *)
(***************************************************************************)
\* a step of the current run (not the arrival of the next request)
SameRun == nruns' = nruns

\* C1: in a provision run the service's desired count is set to 1 only when
\* the restore resource is in the stack with status SUCCESS, the latest
\* restore execution has been observed in status SUCCESS and no restore is
\* being waited for; the DNS update request is issued only when the service
\* start step has returned, with a resolved public address recorded.
C1_ProvisionOrder ==
    [][/\ hist'.desired1 > hist.desired1 =>
            /\ kind = "up"
            /\ exec["restore"] = "SUCCESS"
            /\ outs.status["s3-to-efs-auto"] = "SUCCESS"
            /\ ops["s3-to-efs-auto"].phase = "none"
       /\ hist'.dnsCalls > hist.dnsCalls =>
            /\ kind = "up"
            /\ "ecs-service-manager" \in stack
            /\ ops["ecs-service-manager"].phase = "none"
            /\ outs.public_ip \in Addresses
            /\ hist'.dnsArg = outs.public_ip]_vars

\* a provision run that started the restore, then the service, then issued
\* the DNS update
C1_Witness ==
    /\ kind = "up"
    /\ hist.started["restore"] = 1
    /\ "restore" \in hist.succeeded
    /\ hist.desired1 = 1
    /\ hist.startReturned \in Addresses
    /\ hist.dnsCalls = 1

C3_BackupBeforeDestroy ==
    (/\ pc = "done"
     /\ kind = "destroy"
     /\ result.status = "ok"
     /\ "ecs-service-manager" \in hist.begun) =>
        /\ hist.started["backup"] = 1
        /\ "backup" \in hist.succeeded
        /\ hist.unsaved = {}

C5_SkippedMakesNoCall ==
    [][\A r \in DataSyncExecutions :
         LET props == RegisteredProps(binding, r)
             flagFalse ==
                 IF kind = "up"
                 THEN "run_on_create" \in DOMAIN props /\ ~props.run_on_create
                 ELSE "run_on_delete" \in DOMAIN props /\ ~props.run_on_delete
         IN  (SameRun /\ r \in hist'.begun \ hist.begun /\ flagFalse) =>
                /\ exec' = exec
                /\ hist'.started = hist.started
                /\ ops' = ops
                /\ kind = "up" => r \in stack' /\ outs'.status[r] = "SKIPPED"
                /\ kind = "destroy" => r \notin stack']_vars

\* the backup resource was created with run_on_create false during a
\* provision run
C5_Witness ==
    /\ kind = "up"
    /\ "efs-to-s3-auto" \in hist.begun
    /\ "run_on_create" \in DOMAIN RegisteredProps(binding, "efs-to-s3-auto")
    /\ outs.status["efs-to-s3-auto"] = "SKIPPED"
    /\ hist.started["backup"] = 0

\* C6: in a provision run that executes the service start step and issues
\* the DNS update, the address passed to the DNS update is the address the
\* service start step of that run returned, and it is an address.
C6_DnsInputIsStartOutput ==
    (kind = "up" /\ hist.desired1 > 0 /\ hist.dnsCalls > 0) =>
        /\ hist.dnsArg = hist.startReturned
        /\ hist.dnsArg \in Addresses

\* a provision run that started the service, got an address back and then
\* called the DNS endpoint
C6_Witness ==
    /\ kind = "up"
    /\ hist.desired1 = 1
    /\ hist.startReturned \in Addresses
    /\ hist.dnsCalls = 1
    /\ hist.dnsArg \in Addresses

\* C7: once the service start step of a provision run has failed, the run
\* has made no DNS update call, never reaches the reading of the outputs,
\* and ends with an error.
C7_StartFailureNoDns ==
    (kind = "up" /\ \E e \in errors : e.step = "ecs-service-manager") =>
        /\ hist.dnsCalls = 0
        /\ pc # "outputs"
        /\ pc = "done" => result.status = "error"

\* a provision run ended after the stability wait of the service start ran
\* out of attempts
C7_Witness ==
    /\ kind = "up"
    /\ pc = "done"
    /\ \E e \in errors :
         e.step = "ecs-service-manager" /\ e.cause = "Max attempts exceeded"

\* C8: after a step of a run has failed no further step of that run is
\* started, nothing the run completed is undone (a provision run removes
\* nothing from the stack and never sets the desired count to 0, a
\* deprovision run adds nothing and never sets it to 1), the run ends with
\* an error, and after a DNS failure that follows the service start of the
\* same run the service keeps desired count 1 and stays in the stack.
C8_AbortNoRollback ==
    [][/\ (failed /\ SameRun) => hist'.begun = hist.begun
       /\ (failed /\ SameRun /\ kind = "up") =>
            stack \subseteq stack' /\ hist'.desired0 = 0
       /\ (failed /\ SameRun /\ kind = "destroy") =>
            stack' \subseteq stack /\ hist'.desired1 = 0
       /\ (failed' /\ pc' = "done") => result'.status = "error"
       /\ (/\ kind' = "up"
           /\ hist'.startReturned \in Addresses
           /\ \E e \in errors' : e.step = "ddns-update") =>
            /\ desiredCount' = 1
            /\ hist'.desired0 = 0
            /\ "ecs-service-manager" \in stack']_vars

\* a provision run ended by a rejected DNS update after its service start
C8_Witness ==
    /\ kind = "up"
    /\ pc = "done"
    /\ hist.startReturned \in Addresses
    /\ \E e \in errors : e.step = "ddns-update" /\ e.cause = "badauth"
    /\ desiredCount = 1

C10_NoDestroyAfterFailure ==
    (kind = "destroy" /\
     \E e \in errors : e.step \in {"ecs-service-manager", "efs-to-s3-auto"}) =>
        hist.destroyed = {}

\* a poll of the wait of step r: the step is in its wait and this step ends or
\* continues it
Polls(r) == ops[r].phase = "wait" /\ ops'[r] # ops[r]

\* C11: the poll of a wait that observes the success status (SUCCESS for a
\* transfer execution, stable for the service) ends the wait with success at
\* that poll, without an error; every poll before it left the wait open and
\* counted one attempt; a poll is made only while fewer than maxAttempts (60
\* and 60) polls have been made; and a step whose wait is over is not polled
\* again in the same run.
C11_WaiterSuccess ==
    [][/\ \A r \in DataSyncExecutions :
            Polls(r) =>
              /\ ops[r].attempts < TaskExecutionComplete_maxAttempts
              /\ TaskExecutionComplete_maxAttempts = 60
              /\ exec'[task_arn(r)] = "SUCCESS" =>
                    /\ ops'[r] = NoOp
                    /\ errors' = errors
                    /\ task_arn(r) \in hist'.succeeded
                    /\ kind = "up" =>
                          r \in stack' /\ outs'.status[r] = "SUCCESS"
                    /\ kind = "destroy" => r \notin stack'
              /\ ops'[r].phase = "wait" =>
                    /\ ops'[r].attempts = ops[r].attempts + 1
                    /\ exec'[task_arn(r)] = "IN_PROGRESS"
       /\ LET m == "ecs-service-manager"
          IN  Polls(m) =>
                /\ ops[m].attempts < services_stable_MaxAttempts
                /\ services_stable_MaxAttempts = 60
                /\ stable' =>
                      /\ errors' = errors
                      /\ kind = "up" =>
                            ops'[m] = [phase |-> "resolve",
                                       attempts |-> ops[m].attempts + 1]
                      /\ kind = "destroy" =>
                            ops'[m] = NoOp /\ hist'.stopReturned
                /\ ops'[m].phase = "wait" =>
                      /\ ops'[m].attempts = ops[m].attempts + 1
                      /\ ~stable'
       /\ \A r \in Custom :
            (SameRun /\ r \in hist.begun /\ ops[r].phase # "wait") =>
                ops'[r].phase # "wait"]_vars

\* the stability wait of a service start succeeded at its last allowed poll
C11_Witness ==
    /\ kind = "up"
    /\ ops["ecs-service-manager"] =
         [phase |-> "resolve", attempts |-> services_stable_MaxAttempts]
    /\ stable
    /\ errors = {}

\* C12: a wait whose polls observe no terminal status fails at poll number
\* maxAttempts, not earlier and not later, with the error "Max attempts
\* exceeded"; that error is raised by no poll that observed ERROR or
\* CANCELED, so it differs from the error of a terminal failure.
C12_WaiterTimeout ==
    [][\A r \in DataSyncExecutions :
         Polls(r) =>
           LET observed == exec'[task_arn(r)]
               new == errors' \ errors
               timeout == \E e \in new :
                            e.step = r /\ e.cause = "Max attempts exceeded"
           IN  /\ (/\ observed = "IN_PROGRESS"
                    /\ ops[r].attempts + 1 = TaskExecutionComplete_maxAttempts)
                     => (timeout /\ ops'[r] = NoOp)
               /\ timeout =>
                     /\ observed = "IN_PROGRESS"
                     /\ ops[r].attempts + 1 = TaskExecutionComplete_maxAttempts
                     /\ \A e \in new : e.cause \notin TerminalFailure
                     /\ r \in stack' <=> r \in stack]_vars

\* a restore that was still in progress at the last poll ended the run
C12_Witness ==
    /\ kind = "up"
    /\ pc = "done"
    /\ exec["restore"] = "IN_PROGRESS"
    /\ \E e \in errors :
         /\ e.step = "s3-to-efs-auto"
         /\ e.text = "DataSync CREATE failed for"
         /\ e.cause = "Max attempts exceeded"

\* C13: a poll of a transfer execution that observes ERROR or CANCELED ends
\* the wait at that poll with an error that carries the observed status;
\* from then on the step is not polled, the execution keeps that status, and
\* the run records no success of that job.
C13_WaiterFailure ==
    [][\A r \in DataSyncExecutions :
         /\ (Polls(r) /\ exec'[task_arn(r)] \in TerminalFailure) =>
               /\ ops'[r] = NoOp
               /\ \E e \in errors' \ errors :
                    e.step = r /\ e.cause = exec'[task_arn(r)]
               /\ hist'.succeeded = hist.succeeded
               /\ r \in stack' <=> r \in stack
         /\ (/\ SameRun
             /\ \E e \in errors : e.step = r /\ e.cause \in TerminalFailure) =>
               /\ ops'[r].phase = "none"
               /\ exec'[task_arn(r)] = exec[task_arn(r)]
               /\ task_arn(r) \notin hist'.succeeded]_vars

\* a provision run ended by a restore that was observed CANCELED
C13_Witness ==
    /\ kind = "up"
    /\ pc = "done"
    /\ exec["restore"] = "CANCELED"
    /\ \E e \in errors : e.step = "s3-to-efs-auto" /\ e.cause = "CANCELED"

\* C14: the first application of the DNS resource (create) issues exactly one
\* update request; a second application with the same address (update with
\* the requested ip_address equal to the recorded one) issues none: the
\* record and the recorded address stay, no error is raised, and the result
\* is "nochg (no update needed)".
C14_DnsIdempotent ==
    [][LET r == "ddns-update"
           applied == kind = "up" /\ SameRun /\ r \in hist'.begun \ hist.begun
       IN  /\ (applied /\ r \notin stack) =>
                 hist'.dnsCalls = hist.dnsCalls + 1
           /\ (applied /\ r \in stack /\ ddns_ip_address = outs.ip_address) =>
                 /\ hist.dnsCalls = 0
                 /\ hist'.dnsCalls = 0
                 /\ dnsRecord' = dnsRecord
                 /\ outs'.ip_address = outs.ip_address
                 /\ outs'.result = "nochg (no update needed)"
                 /\ errors' = errors
                 /\ r \in stack']_vars

\* a later provision run applied the DNS resource again with the address
\* the record already has
C14_Witness ==
    /\ kind = "up"
    /\ "ddns-update" \in hist.begun
    /\ hist.dnsCalls = 0
    /\ outs.result = "nochg (no update needed)"
    /\ dnsRecord \in Addresses
    /\ dnsRecord = outs.ip_address

C16_DnsTeardownNoOp ==
    [][(kind = "destroy" /\ SameRun) =>
          /\ hist.dnsCalls = 0
          /\ hist'.dnsCalls = 0
          /\ dnsRecord' = dnsRecord
          /\ ("ddns-update" \in stack \ stack') =>
                "ddns-update" \in hist'.begun \ hist.begun]_vars

\* a deprovision run deleted the DNS resource and completed; the record
\* still points at the address the provision run set
C16_Witness ==
    /\ kind = "destroy"
    /\ pc = "done"
    /\ result.status = "ok"
    /\ "ddns-update" \in hist.begun
    /\ "ddns-update" \notin stack
    /\ dnsRecord = "198.51.100.9"

\* C17: the address of a started service is resolved only in a provision
\* run, after the stability wait observed the service stable at desired
\* count 1.  When the resolution meets a failing condition the start step
\* ends at once with "ECS service start failed" and that condition: the
\* service manager is not added to the stack, no address is recorded or
\* returned, the calls made are exactly those up to the failing check, and
\* afterwards the step makes no further call and the run no DNS call.
C17_ResolveFailsFast ==
    [][LET m == "ecs-service-manager"
           new == errors' \ errors
       IN  /\ ops[m].phase = "resolve" =>
                 /\ kind = "up"
                 /\ stable
                 /\ desiredCount = 1
                 /\ hist.resolve = <<>>
           /\ (ops[m].phase = "resolve" /\ ops'[m] # ops[m] /\ new # {}) =>
                 /\ ops'[m] = NoOp
                 /\ m \notin stack'
                 /\ outs' = outs
                 /\ hist'.startReturned = "none"
                 /\ \A e \in new :
                      /\ e.step = m
                      /\ e.text = "ECS service start failed"
                      /\ e.cause \in ResolveErrors
                      /\ e.cause = "No running tasks found" =>
                            hist'.resolve = <<"list_tasks">>
                      /\ e.cause \in
                            {"No network attachments found on task",
                             "Could not find network interface ID in task details"}
                            => hist'.resolve = <<"list_tasks", "describe_tasks">>
                      /\ e.cause = "No public IP associated with ENI" =>
                            Len(hist'.resolve) = 3
           /\ (SameRun /\ \E e \in errors :
                             e.step = m /\ e.cause \in ResolveErrors) =>
                 /\ ops'[m] = NoOp
                 /\ hist'.resolve = hist.resolve
                 /\ hist'.desired1 = hist.desired1
                 /\ hist'.dnsCalls = 0
                 /\ desiredCount' = desiredCount
                 /\ m \notin stack'
                 /\ outs'.public_ip = outs.public_ip]_vars

\* a provision run ended because the running task had no network
\* attachment
C17_Witness ==
    /\ kind = "up"
    /\ pc = "done"
    /\ result.status = "error"
    /\ hist.resolve = <<"list_tasks", "describe_tasks">>
    /\ \E e \in errors :
         /\ e.step = "ecs-service-manager"
         /\ e.cause = "No network attachments found on task"

\* C18: the service stop step sets the desired count to 0 and opens the
\* stability wait; it returns (the service manager leaves the stack) only at
\* a poll of that wait, one of at most services_stable_MaxAttempts, that
\* observes the service stable at desired count 0; a wait that observes no
\* stability in that many polls fails the step and leaves the service
\* manager in the stack; and a deprovision run never lists tasks or
\* resolves an address.
C18_StopWaitsForStable ==
    [][LET m == "ecs-service-manager"
       IN  (kind = "destroy" /\ SameRun) =>
             /\ hist'.desired0 > hist.desired0 =>
                   /\ desiredCount' = 0
                   /\ hist'.desired0 = 1
                   /\ ops'[m] = [phase |-> "wait", attempts |-> 0]
                   /\ m \in stack'
                   /\ ~hist'.stopReturned
             /\ (m \in stack \ stack' \/ hist'.stopReturned # hist.stopReturned) =>
                   /\ Polls(m)
                   /\ ops[m].attempts < services_stable_MaxAttempts
                   /\ hist.desired0 = 1
                   /\ desiredCount' = 0
                   /\ stable'
                   /\ hist'.stopReturned
                   /\ m \notin stack'
                   /\ errors' = errors
             /\ (/\ Polls(m)
                 /\ ~stable'
                 /\ ops[m].attempts + 1 = services_stable_MaxAttempts) =>
                   /\ m \in stack'
                   /\ \E e \in errors' \ errors :
                        e.step = m /\ e.text = "ECS service stop failed"
             /\ ops[m].phase # "resolve"
             /\ hist.resolve = <<>>
             /\ hist'.resolve = <<>>]_vars

\* a deprovision run whose stop step returned
C18_Witness ==
    /\ kind = "destroy"
    /\ hist.desired0 = 1
    /\ hist.stopReturned
    /\ desiredCount = 0
    /\ stable
    /\ "ecs-service-manager" \notin stack
    /\ hist.resolve = <<>>

\* C19: when the service start step begins with the service at desired
\* count 1 and stable, or the stop step with the service at desired count 0
\* and stable, update_service leaves the service as it is and raises
\* nothing, the first poll of the stability wait observes it stable and
\* ends the wait without error; the stop step then returns, and the start
\* step goes on to the resolution and returns the address it resolves.
C19_Reentrant ==
    [][LET m == "ecs-service-manager"
       IN  /\ (hist'.desired1 > hist.desired1 /\ desiredCount = 1 /\ stable) =>
                 /\ desiredCount' = 1
                 /\ stable'
                 /\ errors' = errors
                 /\ hist'.inTarget
           /\ (hist'.desired0 > hist.desired0 /\ desiredCount = 0 /\ stable) =>
                 /\ desiredCount' = 0
                 /\ stable'
                 /\ errors' = errors
                 /\ hist'.inTarget
           /\ (Polls(m) /\ hist.inTarget) =>
                 /\ ops[m].attempts = 0
                 /\ stable'
                 /\ errors' = errors
                 /\ kind = "up" =>
                       ops'[m] = [phase |-> "resolve", attempts |-> 1]
                 /\ kind = "destroy" =>
                       /\ ops'[m] = NoOp
                       /\ m \notin stack'
                       /\ hist'.stopReturned
           /\ (/\ ops[m].phase = "resolve"
               /\ hist.inTarget
               /\ ops'[m] # ops[m]
               /\ errors' = errors) =>
                 /\ m \in stack'
                 /\ outs'.public_ip \in Addresses
                 /\ hist'.startReturned = outs'.public_ip]_vars

\* a start step that found the service at desired count 1 and stable
\* returned an address
C19_Witness ==
    /\ kind = "up"
    /\ hist.inTarget
    /\ hist.desired1 = 1
    /\ hist.startReturned \in Addresses
    /\ "ecs-service-manager" \in stack
    /\ errors = {}

\* a stop step that found the service at desired count 0 and stable returned
C19_WitnessStop ==
    /\ kind = "destroy"
    /\ hist.inTarget
    /\ hist.desired0 = 1
    /\ hist.stopReturned
    /\ "ecs-service-manager" \notin stack
    /\ errors = {}

\* request i is inside stack.up / stack.destroy and has made an external call
Active(i) == pc[i] = "engine" /\ hist.calls[i] > 0

\* C20: at no time are two requests inside stack.up / stack.destroy, and so
\* no two runs are both between their first and their last external call;
\* while one handler is between its first statement and its return no
\* other handler has begun.
C20_NoConcurrentRuns ==
    /\ \A i, j \in Requests :
         (i # j /\ pc[i] = "engine") => ~Active(j) /\ pc[j] # "engine"
    /\ Cardinality({i \in Requests :
                      pc[i] \in {"select", "engine", "finish", "except"}}) <= 1

\* a second request of the other kind was received while the first is
\* between two external calls of its run
C20_Witness ==
    \E i, j \in Requests :
        /\ Active(i)
        /\ hist.calls[i] < MaxCalls
        /\ pc[j] = "queued"
        /\ kind[i] = "up"
        /\ kind[j] = "destroy"

\* a step that begins an enabled invocation of the DataSync provider for r
Invoked(r) ==
    /\ SameRun
    /\ r \in hist'.begun \ hist.begun
    /\ IF kind = "up" THEN run_on_create(r) ELSE run_on_delete(r)

\* C21: a step that begins an enabled invocation of the DataSync provider
\* starts one new execution of its job, whatever the status of the job's
\* previous execution (none, succeeded, failed or still in progress), and
\* no other step starts an execution; within one run each job is started at
\* most once.
C21_OneNewExecution ==
    [][/\ \A r \in DataSyncExecutions :
            Invoked(r) =>
              /\ hist'.started[task_arn(r)] = hist.started[task_arn(r)] + 1
              /\ task_arn(r) \in hist'.afterSuccess
                   <=> exec[task_arn(r)] = "SUCCESS"
              /\ exec'[task_arn(r)] = "IN_PROGRESS"
              /\ ops'[r] = [phase |-> "wait", attempts |-> 0]
       /\ (SameRun /\ hist'.started # hist.started) =>
            \E r \in DataSyncExecutions :
               /\ Invoked(r)
               /\ \A j \in Jobs \ {task_arn(r)} :
                    hist'.started[j] = hist.started[j]
       /\ \A j \in Jobs : hist'.started[j] <= 1]_vars

\* a provision run ran the restore again although the previous restore
\* execution had succeeded
C21_Witness ==
    /\ kind = "up"
    /\ "restore" \in hist.afterSuccess
    /\ hist.started["restore"] = 1
    /\ "restore" \in hist.succeeded

\* C22: the poll at which a transfer wait fails (a failure status or the
\* attempt limit) leaves the execution in the status that poll observed
\* (IN_PROGRESS on a timeout: it is not cancelled) and starts no execution;
\* for the rest of the run the step makes no call: the execution keeps its
\* status, no execution of the job is started and the step is not waited
\* for again.
C22_NoCleanupOnFailure ==
    [][\A r \in DataSyncExecutions :
         LET j == task_arn(r)
         IN  /\ (Polls(r) /\ \E e \in errors' \ errors : e.step = r) =>
                   /\ hist'.started = hist.started
                   /\ \E e \in errors' \ errors :
                        /\ e.step = r
                        /\ e.cause = "Max attempts exceeded" =>
                              exec'[j] = "IN_PROGRESS"
                        /\ e.cause # "Max attempts exceeded" =>
                              exec'[j] = e.cause
             /\ (SameRun /\ \E e \in errors : e.step = r) =>
                   /\ exec'[j] = exec[j]
                   /\ hist'.started[j] = hist.started[j]
                   /\ ops'[r] = NoOp]_vars

\* a deprovision run ended by a backup that was still in progress at the
\* last poll
C22_Witness ==
    /\ kind = "destroy"
    /\ pc = "done"
    /\ exec["backup"] = "IN_PROGRESS"
    /\ \E e \in errors :
         /\ e.step = "efs-to-s3-auto"
         /\ e.text = "DataSync DELETE failed for"
         /\ e.cause = "Max attempts exceeded"

\* C23: the result returned by a successful provision run contains the
\* endpoint, equal to the public address of the running instance, and the
\* hostname, equal to the hostname given to the DNS step.
C23_ResultHasEndpointAndHostname ==
    (kind = "up" /\ pc = "done" /\ result.status = "ok") =>
        /\ result.public_ip \in Addresses
        /\ result.public_ip = outs.public_ip
        /\ "hostname" \in DOMAIN result
        /\ result.hostname = Hostname

\* C24: whenever no call of the service manager is in progress, a recorded
\* endpoint (the manager is in the stack with a public_ip) implies that the
\* desired replica count is 1, and the desired count is always 0 or 1.
C24_EndpointOnlyWhileDesiredOne ==
    /\ desiredCount \in {0, 1}
    /\ (ops["ecs-service-manager"].phase = "none" /\
        "ecs-service-manager" \in stack /\ outs.public_ip # "none") =>
           desiredCount = 1

\* C25: every run that has begun ends, with the answer ok or error, whatever
\* the services report; no wait makes more than 60 polls (59 polls counted
\* while a wait goes on, the 60th ends it) and a step that has ended is not
\* begun again in the run.
C25_RunsTerminate ==
    /\ [](\A r \in Custom :
            /\ ops[r].attempts <= 60
            /\ ops[r].phase = "wait" => ops[r].attempts < 60)
    /\ [](pc = "done" => result.status \in {"ok", "error"})
    /\ [][\A r \in Custom :
            (SameRun /\ r \in hist.begun /\ ops[r] = NoOp) =>
                ops'[r] = NoOp]_vars
    /\ (pc \notin {"idle", "done"}) ~> (pc = "done")

\* a provision run ended by the stability wait running out of its 60 polls
C25_Witness ==
    /\ kind = "up"
    /\ pc = "done"
    /\ result.status = "error"
    /\ \E e \in errors :
         /\ e.step = "ecs-service-manager"
         /\ e.text = "ECS service start failed"
         /\ e.cause = "Max attempts exceeded"

\* C26: while the DNS resource is in the stack and no DNS call is in
\* progress, the recorded (hostname, ip_address) is a pair that the
\* endpoint accepted: the record of the recorded hostname holds the recorded
\* address.  dnsRecord is the record of Hostname, the hostname of this
\* process; it changes only by an accepted request.
C26_RecordedPairWasApplied ==
    ("ddns-update" \in stack /\ outs.hostname = Hostname) =>
        dnsRecord = outs.ip_address

\* a step at which a call of the DNS provider raises
DnsFails == \E e \in errors' \ errors : e.step = "ddns-update"

Terminal ==
    {"Tetracubed Has Been Successfully Provisioned!",
     "Failed To Provision Exception",
     "Provisioning failed: ESC not configured"}

\* how many of the notifications sent so far are in the set S
Sent(S) == Cardinality({i \in DOMAIN notifications : notifications[i] \in S})

\* C28: in a start request the first notification is the one "Provisioning"
\* notification; no terminal notification is sent before the request ends
\* and exactly one, the last notification, has been sent when it has ended;
\* the success notification is sent only when stack.up returned and the
\* outputs were read.
C28_OneTerminalNotification ==
    kind = "up" =>
        /\ Len(notifications) >= 1
        /\ notifications[1] = "Provisioning Tetracubed Server..."
        /\ Sent({"Provisioning Tetracubed Server..."}) = 1
        /\ pc # "done" => Sent(Terminal) = 0
        /\ pc = "done" =>
              /\ Sent(Terminal) = 1
              /\ notifications[Len(notifications)] \in Terminal
        /\ Sent({"Tetracubed Has Been Successfully Provisioned!"}) = 1 =>
              /\ result.status = "ok"
              /\ errors = {}
              /\ Registered(binding) \subseteq stack
              /\ result.public_ip = outs.public_ip

\* the POSTs made so far that received status 204
Delivered == {i \in DOMAIN hist.received : hist.received[i] = "204"}

\* C29: send_sync makes at most max_retries POSTs whatever they end in and
\* none without a webhook URL; a 204 is the last POST made; once it has
\* returned, the value is True if some POST received 204 and False
\* otherwise; while it has not returned no POST has received 204.
C29_SendSyncBounded ==
    /\ Len(hist.received) <= max_retries
    /\ outs.webhook_url = "none" => hist.received = <<>>
    /\ \A i \in Delivered : i = Len(hist.received)
    /\ pc = "returned" =>
          /\ result.status \in {"True", "False"}
          /\ result.status = "True" <=> Delivered # {}
    /\ pc # "returned" => Delivered = {} /\ result.status = "none"

\* the first two POSTs are rate limited and time out, the third is
\* delivered
C29_Witness ==
    /\ pc = "returned"
    /\ result.status = "True"
    /\ hist.received = <<"429", "Timeout", "204">>

\* every POST the loop allows was made and none was delivered
C29_WitnessFailed ==
    /\ pc = "returned"
    /\ result.status = "False"
    /\ Len(hist.received) = max_retries
    /\ hist.received[max_retries] = "429"

\* C30: a request is answered as its stack calls decide, whatever became of
\* its notifications: it returns only if create_or_select_stack and stack.up
\* / stack.destroy returned, it raises only if one of them raised, and a
\* notification is never what moves a handler into its except branch or
\* ends it (a send that cannot be queued gives False, not an exception).
C30_DeliveryDoesNotDecide ==
    \A i \in Requests :
       /\ pc[i] = "returned" => hist.outcome[i] = "ok"
       /\ pc[i] \in {"except", "raised"} => hist.outcome[i] = "error"
       /\ pc[i] = "finish" => hist.outcome[i] = "ok"
       /\ pc[i] \in {"select", "engine"} => hist.outcome[i] = "none"

\* a start request returned although one of its notifications could not be
\* queued and another was not delivered, and a stop request raised with
\* every notification delivered
C30_Witness ==
    \E i, j \in Requests :
       /\ kind[i] = "up"
       /\ pc[i] = "returned"
       /\ hist.failures[i] = {"not delivered", "queue error"}
       /\ kind[j] = "destroy"
       /\ pc[j] = "raised"
       /\ hist.failures[j] = {}

====
